---------------------------- MODULE Spec2Model ----------------------------
(***************************************************************************)
(* Redshot: the risk-managed decision cycle (SystemSupervisor.run_once),   *)
(* the portfolio ledger (PortfolioManager), the trade broker, the advisor  *)
(* with its enhanced moving-average strategy, and the HTTP host that       *)
(* triggers cycles and reads the ledger.                                   *)
(*                                                                         *)
(* Python floats are modelled as exact rationals <<numerator, denominator>>*)
(* in lowest terms: the arithmetic of the source is carried out as written *)
(* but without binary rounding.  The value None is the number -1 for a     *)
(* price and the pair <<0, 0>> for an optional float.                      *)
(***************************************************************************)
EXTENDS Integers, Sequences, FiniteSets, TLC

(***************************************************************************)
(* Bounds of the model.                                                    *)
(***************************************************************************)
MaxCycles == 3          \* run_once is triggered at most this many times
MaxTicks == 2           \* the market moves at most this many times
MaxBuys == 2            \* at most this many buy orders are executed
MaxHist == 3            \* longest historical series the data source returns
ShortWindow == 2        \* strategy.short_window
LongWindow == 3         \* strategy.long_window
VolumeWindow == 2       \* strategy.volume_window
RsiPeriod == 2          \* strategy.rsi_period

(***************************************************************************)
(* Program constants.                                                      *)
(***************************************************************************)
InitialCash == 1000     \* PortfolioManager.initial_cash
MaxRiskPct == 2         \* max_risk_pct = 0.02, in percent
StopLossPct == 5        \* stop_loss_pct = 0.05, in percent
TrailingStopPct == 5    \* trailing_stop_pct = 0.05, in percent
ThresholdPct == 2       \* strategy.threshold = 0.02, in percent
MarginPct == 2          \* the 0.02 support/resistance margin, in percent
Overbought == 70        \* strategy.overbought
Oversold == 30          \* strategy.oversold
None == -1              \* an unresolved price

\* The tracked assets, in configured order.
assets == <<"BTC", "ETH">>
Codes == {assets[i] : i \in 1..Len(assets)}

\* Prices the data source can report (0 is a resolved price), and per asset
\* what a request for its price can return.
Prices == {0, 10, 20, 21}
Quotes == [c \in Codes |-> IF c = "BTC" THEN Prices \cup {None} ELSE {10, 20, None}]
\* Values of the historical series.
HistPrices == {0, 10, 21}
HistVolumes == {1, 2}
\* Cash balances the portfolio can be constructed with.
InitialCapitals == {0, InitialCash}

(***************************************************************************)
(* Exact arithmetic for the float expressions of the source.               *)
(***************************************************************************)
Abs(x) == IF x < 0 THEN 0 - x ELSE x

RECURSIVE GCD(_, _)
GCD(a, b) == IF b = 0 THEN a ELSE GCD(b, a % b)

Norm(n, d) == LET g == GCD(Abs(n), d) IN <<n \div g, d \div g>>

R(i) == <<i, 1>>

Pct(p) == Norm(p, 100)

LCM(a, b) == (a \div GCD(a, b)) * b

RAdd(x, y) ==
    LET l == LCM(x[2], y[2])
    IN  Norm(x[1] * (l \div x[2]) + y[1] * (l \div y[2]), l)

RNeg(x) == <<0 - x[1], x[2]>>

RSub(x, y) == RAdd(x, RNeg(y))

RMul(x, y) ==
    LET g1 == GCD(Abs(x[1]), y[2])
        g2 == GCD(Abs(y[1]), x[2])
    IN  <<(x[1] \div g1) * (y[1] \div g2), (x[2] \div g2) * (y[2] \div g1)>>

\* y is not zero
RDiv(x, y) ==
    IF y[1] > 0 THEN RMul(x, <<y[2], y[1]>>)
                ELSE RMul(x, <<0 - y[2], 0 - y[1]>>)

RLe(x, y) ==
    LET l == LCM(x[2], y[2])
    IN  x[1] * (l \div x[2]) <= y[1] * (l \div y[2])

RLt(x, y) == ~RLe(y, x)

RMin(x, y) == IF RLe(x, y) THEN x ELSE y

RAbs(x) == <<Abs(x[1]), x[2]>>

\* (1.0 - pct)
OneMinus(p) == RSub(R(1), Pct(p))

RECURSIVE SumSeq(_)
SumSeq(s) == IF s = <<>> THEN 0 ELSE Head(s) + SumSeq(Tail(s))

LastN(s, n) == SubSeq(s, Len(s) - n + 1, Len(s))

SeqMax(s) == CHOOSE m \in {s[i] : i \in 1..Len(s)} : \A j \in 1..Len(s) : s[j] <= m
SeqMin(s) == CHOOSE m \in {s[i] : i \in 1..Len(s)} : \A j \in 1..Len(s) : m <= s[j]

\* an absent optional float
NoneR == <<0, 0>>


(***************************************************************************)
(* EnhancedSMAStrategy: the indicators and the recommendation.             *)
(***************************************************************************)
\* _sma(values, window) averaging what there is of a short series
SmaOfAvailable(values, window) ==
    IF Len(values) = 0
    THEN NoneR
    ELSE IF Len(values) < window
    THEN Norm(SumSeq(values), Len(values))
    ELSE Norm(SumSeq(LastN(values, window)), window)

\* _sma(values, window)
Sma(values, window) ==
    IF Len(values) = 0 \/ Len(values) < window
    THEN NoneR
    ELSE Norm(SumSeq(LastN(values, window)), window)

\* the `period` most recent consecutive price changes, oldest first
Changes(prices, period) ==
    [k \in 1..period |->
        prices[Len(prices) - period + k] - prices[Len(prices) - period + k - 1]]

GainSum(ch) == SumSeq([k \in 1..Len(ch) |-> IF ch[k] >= 0 THEN ch[k] ELSE 0])
LossSum(ch) == SumSeq([k \in 1..Len(ch) |-> IF ch[k] >= 0 THEN 0 ELSE 0 - ch[k]])

\* _rsi(prices, period) with gains and losses taken for each other
RsiSwapped(prices, period) ==
    IF Len(prices) < period + 1
    THEN NoneR
    ELSE LET ch == Changes(prices, period)
             avg_gain == Norm(LossSum(ch), period)
             avg_loss == Norm(GainSum(ch), period)
         IN  IF avg_loss[1] = 0
             THEN R(100)
             ELSE LET rs == RDiv(avg_gain, avg_loss)
                  IN  RSub(R(100), RDiv(R(100), RAdd(R(1), rs)))

\* _rsi(prices, period)
Rsi(prices, period) ==
    IF Len(prices) < period + 1
    THEN NoneR
    ELSE LET ch == Changes(prices, period)
             avg_gain == Norm(GainSum(ch), period)
             avg_loss == Norm(LossSum(ch), period)
         IN  IF avg_loss[1] = 0
             THEN R(100)
             ELSE LET rs == RDiv(avg_gain, avg_loss)
                  IN  RSub(R(100), RDiv(R(100), RAdd(R(1), rs)))

\* lines 192-197: volume_ok, for a strategy built with volume_window
VolumeOkWindow(volumes, volume_window) ==
    IF Len(volumes) > 0 /\ Len(volumes) >= volume_window
    THEN LET recent_vols == LastN(volumes, volume_window)
             n == Len(recent_vols)
             avg_volume == IF n > 1
                           THEN Norm(SumSeq(SubSeq(recent_vols, 1, n - 1)), n - 1)
                           ELSE R(recent_vols[1])
         IN  RLt(avg_volume, R(recent_vols[n]))
    ELSE TRUE

\* volume_ok of generate_recommendations
VolumeOk(volumes) == VolumeOkWindow(volumes, VolumeWindow)

\* the support/resistance block is entered
HasLongWindow(prices) == Len(prices) > 0 /\ Len(prices) >= LongWindow

\* the divisions by recent_high and recent_low raise ZeroDivisionError
BandRaises(prices) ==
    /\ HasLongWindow(prices)
    /\ \/ SeqMax(LastN(prices, LongWindow)) = 0
       \/ SeqMin(LastN(prices, LongWindow)) = 0

ResistanceOk(prices, current_price) ==
    IF HasLongWindow(prices)
    THEN LET recent_high == SeqMax(LastN(prices, LongWindow))
         IN  RLt(Pct(MarginPct), RDiv(R(recent_high - current_price), R(recent_high)))
    ELSE TRUE

SupportOk(prices, current_price) ==
    IF HasLongWindow(prices)
    THEN LET recent_low == SeqMin(LastN(prices, LongWindow))
         IN  RLt(Pct(MarginPct), RDiv(R(current_price - recent_low), R(recent_low)))
    ELSE TRUE

\* line 222 without the comparison with the long SMA
LongOkBuyAlways(long_sma, cur) == TRUE

\* line 222: the long-term trend lets a buy pass
LongOkBuy(long_sma, cur) == long_sma = NoneR \/ RLt(long_sma, cur)

\* line 231: the long-term trend lets a sell pass
LongOkSell(long_sma, cur) == long_sma = NoneR \/ RLt(cur, long_sma)

Hold == [raised |-> FALSE, side |-> "hold", confidence |-> R(0)]
Raised == [raised |-> TRUE, side |-> "hold", confidence |-> R(0)]

\* EnhancedSMAStrategy.generate_recommendations(asset, historical_data, current_price)
EnhancedRecommendation(historical_data, current_price) ==
    LET prices == historical_data.prices
        volumes == historical_data.volumes
        short_sma == Sma(prices, ShortWindow)
        long_sma == Sma(prices, LongWindow)
        rsi_value == Rsi(prices, RsiPeriod)
        rsi_ok_buy == rsi_value = NoneR \/ RLe(rsi_value, R(Overbought))
        rsi_ok_sell == rsi_value = NoneR \/ RLe(R(Oversold), rsi_value)
        cur == R(current_price)
    IN  IF BandRaises(prices)
        THEN Raised
        ELSE IF short_sma = NoneR \/ short_sma[1] = 0
        THEN Hold
        ELSE LET delta == RDiv(RSub(cur, short_sma), short_sma)
                 confidence == RMin(RAbs(delta), R(1))
                 buy == /\ RLt(Pct(ThresholdPct), delta)
                        /\ LongOkBuy(long_sma, cur)
                        /\ VolumeOk(volumes)
                        /\ ResistanceOk(prices, current_price)
                        /\ rsi_ok_buy
                 sell == /\ RLt(delta, RNeg(Pct(ThresholdPct)))
                         /\ LongOkSell(long_sma, cur)
                         /\ SupportOk(prices, current_price)
                         /\ rsi_ok_sell
             IN  [raised |-> FALSE,
                  side |-> IF buy THEN "buy" ELSE IF sell THEN "sell" ELSE "hold",
                  confidence |-> confidence]

\* SimpleMovingAverageStrategy.generate_recommendations(asset,
\* historical_prices, current_price), with self.window and self.threshold
BasicRecommendation(historical_prices, current_price, window, threshold) ==
    IF Len(historical_prices) = 0
    THEN Hold
    ELSE LET window_prices ==
                 IF window < Len(historical_prices)
                 THEN LastN(historical_prices, window) ELSE historical_prices
             average_price == Norm(SumSeq(window_prices), Len(window_prices))
         IN  IF average_price[1] = 0
             THEN Raised
             ELSE LET delta == RDiv(RSub(R(current_price), average_price), average_price)
                  IN  [raised |-> FALSE,
                       side |-> IF RLt(Pct(threshold), delta) THEN "buy"
                                ELSE IF RLt(delta, RNeg(Pct(threshold))) THEN "sell"
                                ELSE "hold",
                       confidence |-> RMin(RAbs(delta), R(1))]

\* `historical_data or {"prices": [], "volumes": []}`: get_historical_data
\* returned None
NoData == [prices |-> <<>>, volumes |-> <<>>]

\* What get_historical_data can return: equal-length price and volume series.
SeqsUpTo(S, n) == UNION {[1..k -> S] : k \in 0..n}
HistoricalData ==
    {[prices |-> p, volumes |-> v] :
        <<p, v>> \in {pv \in SeqsUpTo(HistPrices, MaxHist) \X SeqsUpTo(HistVolumes, MaxHist) :
                        Len(pv[1]) = Len(pv[2])}}

\* For each resolved price, what the strategy can answer over all series.
StrategyOutcomes ==
    [p \in Prices |-> {EnhancedRecommendation(hd, p) : hd \in HistoricalData}]


(***************************************************************************)
(* State.                                                                  *)
(***************************************************************************)
\* Threads that can execute run_once: the scheduler's and a second trigger's.
Threads == {1, 2}

VARIABLES
    cash,               \* PortfolioManager.cash
    positions,          \* PortfolioManager.positions: code -> Position, or absent
    stop_levels,        \* SystemSupervisor.stop_levels: code -> level, or absent
    last_cycle_start,   \* SystemSupervisor.last_cycle_start (0: None)
    last_performance,   \* SystemSupervisor.last_performance
    market,             \* the data source: the price each asset resolves to now
    test_mode,          \* TradeBroker.test_mode
    clock,              \* number of run_once calls begun so far
    ticks,              \* number of market moves so far
    buys,               \* number of buy orders executed so far
    pc,                 \* per thread: where it stands in run_once
    asset_i,            \* per thread: index of `asset` in the loop over assets
    previous_value,     \* per thread: previous_value
    strategy_side,      \* per thread: side the advisor returned for `asset`
    history,            \* per thread: whether historical_data resolved for `asset`
    recommendation,     \* per thread: recommendation (after the override)
    order,              \* per thread: side, quantity and price given to place_order
    trade,              \* per thread: what place_order returned for `asset`
    raised,             \* per thread: its run_once ended by an exception
    began,              \* cash, positions and market when the latest run_once was entered
    observed,           \* what the last GET /api/portfolio returned
    input_data,         \* a direct call: the historical_data argument
    input_price,        \* a direct call: the current_price argument
    output,             \* a direct call: what was called and what it returned
    last_details,       \* AssetAdvisor.last_details, of each of two advisors
    advised,            \* what advise returned, for each of the two advisors
    response            \* POST /api/simulate: its previous_value and what it returned

ledger == <<cash, positions, stop_levels>>
supervisor == <<last_cycle_start, last_performance>>
env == <<market, test_mode, ticks, buys>>
vars == <<cash, positions, stop_levels, last_cycle_start, last_performance,
          market, test_mode, clock, ticks, buys, pc, asset_i, previous_value,
          strategy_side, history, recommendation, order, trade, raised, began,
          observed, input_data, input_price, output, last_details, advised,
          response>>
\* what a direct call of a strategy, of _rsi or of update_position works on
calls == <<input_data, input_price, output, last_details, advised, response>>
\* what the callers of advise and of the simulate operation keep
others == <<last_details, advised, response>>
\* the state of the supervisor and its collaborators
program == <<cash, positions, stop_levels, last_cycle_start, last_performance,
             market, test_mode, clock, ticks, buys, pc, asset_i, previous_value,
             strategy_side, history, recommendation, order, trade, raised, began,
             observed>>

NoPosition == [present |-> FALSE, amount |-> R(0)]
NoLevel == [present |-> FALSE, entry_price |-> 0, stop_loss |-> R(0),
            highest_price |-> 0, trailing_stop |-> R(0)]
NoPerformance == [present |-> FALSE, portfolio_value |-> R(0), variation |-> R(0),
                  datetime |-> 0]
NoRecommendation == [side |-> "hold", price |-> None]
NoOrder == [side |-> "none", quantity |-> R(0), price |-> None]
\* `trade` before place_order is called, and when it returned None
NoTrade == [kind |-> "unset", side |-> "none", quantity |-> R(0), price |-> None]
FailedTrade == [kind |-> "None", side |-> "none", quantity |-> R(0), price |-> None]
NoObservation == [present |-> FALSE, during |-> 0, cash |-> R(0),
                  positions |-> [c \in Codes |-> NoPosition]]
\* no direct call made yet
NoOutput == [kind |-> "none", param |-> 0, threshold |-> 0, rec |-> Hold,
             value |-> NoneR, ok |-> FALSE, code |-> "", trade |-> NoTrade,
             price |-> None]

\* a strategy's Recommendation with price=None
PriceReturnedAbsent(rec, current_price) == None

\* the price of the Recommendation a strategy returns: price=current_price
PriceReturned(rec, current_price) == IF rec.raised THEN None ELSE current_price

\* Two advisors, alike but for what their last_details hold.
Advisors == {1, 2}
\* no entry in last_details for the asset
NoDetails == [present |-> FALSE, short_sma |-> NoneR, long_sma |-> NoneR,
              rsi |-> NoneR, current_price |-> None, recommendation |-> "hold"]
\* advise not called yet
NotAdvised == [called |-> FALSE, raised |-> FALSE, side |-> "hold", price |-> None]
\* no simulate request made yet
NoResponse == [phase |-> "none", previous_value |-> R(0), portfolio_value |-> R(0),
               variation |-> R(0)]

\* `if current_price:` -- neither None nor 0.0
Truthy(price) == price # None /\ price # 0

(***************************************************************************)
(* PortfolioManager.                                                       *)
(***************************************************************************)
RECURSIVE ValueOver(_, _, _)
ValueOver(pos, mkt, i) ==
    IF i > Len(assets)
    THEN R(0)
    ELSE LET c == assets[i]
             rest == ValueOver(pos, mkt, i + 1)
         IN  IF pos[c].present /\ mkt[c] # None
             THEN RAdd(RMul(pos[c].amount, R(mkt[c])), rest)
             ELSE rest

\* compute_portfolio_value()
PortfolioValue(pos, mkt) == ValueOver(pos, mkt, 1)

\* compute_total_value() without the cash
TotalValueOfPositions(csh, pos, mkt) == PortfolioValue(pos, mkt)

\* compute_total_value()
TotalValue(csh, pos, mkt) == RAdd(csh, PortfolioValue(pos, mkt))

\* compute_performance(previous_value, current_datetime)
Performance(csh, pos, mkt, prev, now) ==
    LET current_value == TotalValue(csh, pos, mkt)
    IN  [present |-> TRUE,
         portfolio_value |-> current_value,
         variation |-> IF RLt(R(0), prev)
                       THEN RDiv(RSub(current_value, prev), prev)
                       ELSE R(0),
         datetime |-> now]

\* update_position(trade): the cash after the trade
CashAfter(csh, ord) ==
    LET trade_value == RMul(R(ord.price), ord.quantity)
    IN  IF ord.side = "buy" THEN RSub(csh, trade_value)
        ELSE IF ord.side = "sell" THEN RAdd(csh, trade_value)
        ELSE csh

\* update_position(trade) with the amount kept from falling below zero
PositionsAfterClamped(pos, code, ord) ==
    LET delta == IF ord.side = "buy" THEN ord.quantity ELSE RNeg(ord.quantity)
        held == IF pos[code].present THEN pos[code].amount ELSE R(0)
        amount == IF RLt(RAdd(held, delta), R(0)) THEN R(0) ELSE RAdd(held, delta)
    IN  [pos EXCEPT ![code] = [present |-> TRUE, amount |-> amount]]

\* update_position(trade): the positions after the trade
PositionsAfter(pos, code, ord) ==
    LET delta == IF ord.side = "buy" THEN ord.quantity ELSE RNeg(ord.quantity)
    IN  IF ~pos[code].present
        THEN [pos EXCEPT ![code] = [present |-> TRUE, amount |-> delta]]
        ELSE [pos EXCEPT ![code].amount = RAdd(@, delta)]

(***************************************************************************)
(* SystemSupervisor.run_once, one action per stretch between blocking      *)
(* calls.  The locals of one loop iteration are dead once the iteration    *)
(* ends and are cleared there.                                             *)
(***************************************************************************)
\* lines 83-87 with the trailing distance added at line 86
LevelAfterCheckAdded(level, current_price) ==
    LET highest == IF current_price > level.highest_price
                   THEN current_price ELSE level.highest_price
    IN  [level EXCEPT !.highest_price = highest,
                      !.trailing_stop = RMul(R(highest), RAdd(R(1), Pct(TrailingStopPct)))]

\* lines 83-87 without the test of line 83
LevelAfterCheckUnguarded(level, current_price) ==
    [level EXCEPT !.highest_price = current_price,
                  !.trailing_stop = RMul(R(current_price), OneMinus(TrailingStopPct))]

\* lines 83-87: highest_price and trailing_stop of a held asset's level
LevelAfterCheck(level, current_price) ==
    LET highest == IF current_price > level.highest_price
                   THEN current_price
                   ELSE level.highest_price
    IN  [level EXCEPT !.highest_price = highest,
                      !.trailing_stop = RMul(R(highest), OneMinus(TrailingStopPct))]

\* line 89 without the test of the trailing stop
BreachedStopLossOnly(level, current_price) ==
    RLe(R(current_price), level.stop_loss)

\* line 89: the price has fallen to the stop loss or the trailing stop
Breached(level, current_price) ==
    \/ RLe(R(current_price), level.stop_loss)
    \/ RLe(R(current_price), level.trailing_stop)

\* lines 79 and 81: the asset is held, the price usable and a level recorded
StopsChecked(pos, level, current_price) ==
    /\ pos.present
    /\ RLt(R(0), pos.amount)
    /\ Truthy(current_price)
    /\ level.present

\* line 107 without the test of the side
ActsOnAnySide(rec) == Truthy(rec.price)

\* line 107: a clear buy or sell signal and a valid price
Acts(rec) == rec.side \in {"buy", "sell"} /\ Truthy(rec.price)

\* line 128 selling twice the position
SellQuantityTwice(pos) == RMul(pos.amount, R(2))

\* line 128 selling half of the position
SellQuantityHalf(pos) == RMul(pos.amount, <<1, 2>>)

\* line 128: sell the entire position
SellQuantity(pos) == pos.amount

\* lines 112-114 without the risk percentage
InvestDollarsUnscaled(csh, total_value) == RMin(csh, total_value)

\* lines 112-114: the dollars to invest
InvestDollars(csh, total_value) ==
    LET max_investment == RMul(total_value, Pct(MaxRiskPct))
    IN  RMin(csh, max_investment)

\* line 115: the quantity to buy
BuyQuantity(invest_dollars, current_price) ==
    IF current_price > 0 THEN RDiv(invest_dollars, R(current_price)) ELSE R(0)

\* lines 141-149 with the stop loss set at the entry price itself
EntryLevelAtEntry(entry_price) ==
    [present |-> TRUE,
     entry_price |-> entry_price,
     stop_loss |-> R(entry_price),
     highest_price |-> entry_price,
     trailing_stop |-> RMul(R(entry_price), OneMinus(TrailingStopPct))]

\* lines 141-149: the level set on a buy
EntryLevel(entry_price) ==
    [present |-> TRUE,
     entry_price |-> entry_price,
     stop_loss |-> RMul(R(entry_price), OneMinus(StopLossPct)),
     highest_price |-> entry_price,
     trailing_stop |-> RMul(R(entry_price), OneMinus(TrailingStopPct))]

\* lines 137-152 without the test of line 137
LevelsAfterOrderUntested(levels, code, filled, ord) ==
    IF ord.side = "buy"
    THEN [levels EXCEPT ![code] = [present |-> TRUE,
             entry_price |-> ord.price,
             stop_loss |-> RMul(R(ord.price), OneMinus(StopLossPct)),
             highest_price |-> ord.price,
             trailing_stop |-> RMul(R(ord.price), OneMinus(TrailingStopPct))]]
    ELSE IF ord.side = "sell" /\ levels[code].present
    THEN [levels EXCEPT ![code] = [present |-> FALSE, entry_price |-> 0,
             stop_loss |-> R(0), highest_price |-> 0, trailing_stop |-> R(0)]]
    ELSE levels

\* lines 137-152: the stop-level table after place_order returned
LevelsAfterOrder(levels, code, filled, ord) ==
    IF ~filled THEN levels
    ELSE IF ord.side = "buy" THEN [levels EXCEPT ![code] = EntryLevel(ord.price)]
    ELSE IF ord.side = "sell" /\ levels[code].present THEN [levels EXCEPT ![code] = NoLevel]
    ELSE levels

\* the loop `for asset in self.assets` taking the same asset again
AdvanceStaying(t) ==
    /\ asset_i' = asset_i
    /\ pc' = [pc EXCEPT ![t] = "advise"]
    /\ strategy_side' = [strategy_side EXCEPT ![t] = "hold"]
    /\ history' = [history EXCEPT ![t] = "unset"]
    /\ recommendation' = [recommendation EXCEPT ![t] = NoRecommendation]
    /\ order' = [order EXCEPT ![t] = NoOrder]

\* the loop `for asset in self.assets` moves on, or ends
Advance(t) ==
    /\ IF asset_i[t] < Len(assets)
       THEN /\ asset_i' = [asset_i EXCEPT ![t] = @ + 1]
            /\ pc' = [pc EXCEPT ![t] = "advise"]
       ELSE /\ asset_i' = asset_i
            /\ pc' = [pc EXCEPT ![t] = "performance"]
    /\ strategy_side' = [strategy_side EXCEPT ![t] = "hold"]
    /\ history' = [history EXCEPT ![t] = "unset"]
    /\ recommendation' = [recommendation EXCEPT ![t] = NoRecommendation]
    /\ order' = [order EXCEPT ![t] = NoOrder]

\* lines 68-72: run_once is entered
BeginCycle(t) ==
    /\ pc[t] = "idle"
    /\ clock < MaxCycles
    /\ clock' = clock + 1
    /\ last_cycle_start' = clock + 1
    /\ previous_value' = [previous_value EXCEPT ![t] = TotalValue(cash, positions, market)]
    /\ asset_i' = [asset_i EXCEPT ![t] = 1]
    /\ pc' = [pc EXCEPT ![t] = "advise"]
    /\ raised' = [raised EXCEPT ![t] = FALSE]
    /\ began' = <<cash, positions, market>>
    /\ UNCHANGED <<ledger, last_performance, env, strategy_side, history, recommendation,
                   order, trade, observed>>

\* line 75: advisor.advise(asset) returns a recommendation
AdviseReturns(t) ==
    /\ pc[t] = "advise"
    /\ LET current_price == market[assets[asset_i[t]]]
       IN  \E side \in {"buy", "sell", "hold"}, h \in {"resolved", "unresolved"} :
             /\ IF current_price = None
                THEN side = "hold"
                ELSE IF h = "unresolved"
                THEN side = EnhancedRecommendation(NoData, current_price).side
                ELSE \E o \in StrategyOutcomes[current_price] :
                        ~o.raised /\ o.side = side
             /\ history' = [history EXCEPT ![t] = h]
             /\ strategy_side' = [strategy_side EXCEPT ![t] = side]
             /\ recommendation' = [recommendation EXCEPT ![t] =
                                     [side |-> side, price |-> current_price]]
    /\ pc' = [pc EXCEPT ![t] = "stops"]
    /\ trade' = [trade EXCEPT ![t] = NoTrade]
    /\ UNCHANGED <<ledger, supervisor, env, clock, asset_i, previous_value, order,
                   raised, began, observed>>

\* line 75: advisor.advise(asset) raises, the strategy having divided by a
\* recent high or low of zero; run_once has no handler
AdviseRaises(t) ==
    /\ pc[t] = "advise"
    /\ market[assets[asset_i[t]]] # None
    /\ \E o \in StrategyOutcomes[market[assets[asset_i[t]]]] : o.raised
    /\ raised' = [raised EXCEPT ![t] = TRUE]
    /\ pc' = [pc EXCEPT ![t] = "idle"]
    /\ trade' = [trade EXCEPT ![t] = NoTrade]
    /\ previous_value' = [previous_value EXCEPT ![t] = R(0)]
    /\ UNCHANGED <<ledger, supervisor, env, clock, asset_i, strategy_side, history,
                   recommendation, order, began, observed>>

\* lines 76-128: stop check, override, and the sizing of a sell
CheckStops(t) ==
    /\ pc[t] = "stops"
    /\ LET code == assets[asset_i[t]]
           rec == recommendation[t]
           current_price == rec.price
           pos == positions[code]
           level == stop_levels[code]
           checked == StopsChecked(pos, level, current_price)
           level1 == IF checked THEN LevelAfterCheck(level, current_price) ELSE level
           rec1 == IF checked /\ Breached(level1, current_price)
                   THEN [side |-> "sell", price |-> current_price]
                   ELSE rec
       IN  /\ stop_levels' = [stop_levels EXCEPT ![code] = level1]
           /\ IF Acts(rec1)
              THEN IF rec1.side = "buy"
                   THEN /\ pc' = [pc EXCEPT ![t] = "size"]
                        /\ recommendation' = [recommendation EXCEPT ![t] = rec1]
                        /\ UNCHANGED <<asset_i, order, strategy_side, history>>
                   ELSE IF ~pos.present \/ RLe(pos.amount, R(0))
                        THEN Advance(t)
                        ELSE /\ order' = [order EXCEPT ![t] =
                                            [side |-> "sell",
                                             quantity |-> SellQuantity(pos),
                                             price |-> current_price]]
                             /\ pc' = [pc EXCEPT ![t] = "place"]
                             /\ recommendation' = [recommendation EXCEPT ![t] = rec1]
                             /\ UNCHANGED <<asset_i, strategy_side, history>>
              ELSE Advance(t)
    /\ UNCHANGED <<cash, positions, supervisor, env, clock, previous_value, trade,
                   raised, began, observed>>

\* lines 108-120: the sizing of a buy
SizeBuy(t) ==
    /\ pc[t] = "size"
    /\ LET current_price == recommendation[t].price
           total_value == TotalValue(cash, positions, market)
           invest_dollars == InvestDollars(cash, total_value)
           quantity == BuyQuantity(invest_dollars, current_price)
       IN  IF RLe(quantity, R(0))
           THEN Advance(t)
           ELSE /\ order' = [order EXCEPT ![t] =
                               [side |-> "buy", quantity |-> quantity,
                                price |-> current_price]]
                /\ pc' = [pc EXCEPT ![t] = "place"]
                /\ UNCHANGED <<asset_i, strategy_side, history, recommendation>>
    /\ UNCHANGED <<ledger, supervisor, env, clock, previous_value, trade, raised,
                   began, observed>>

\* TradeBroker.place_order, the Trade it can return: in test mode the order
\* as requested; from the exchange, the price and the amount of its result,
\* here the requested price and the requested amount or half of it
Trades(ord, test) ==
    {[kind |-> "Trade", side |-> ord.side, quantity |-> q, price |-> ord.price] :
        q \in IF test THEN {ord.quantity}
              ELSE {ord.quantity, RMul(ord.quantity, <<1, 2>>)}}

\* lines 130-152: place_order returns a Trade, which is applied
OrderFills(t) ==
    /\ pc[t] = "place"
    /\ order[t].side = "buy" => buys < MaxBuys
    /\ buys' = IF order[t].side = "buy" THEN buys + 1 ELSE buys
    /\ \E executed \in Trades(order[t], test_mode) :
          /\ trade' = [trade EXCEPT ![t] = executed]
          /\ cash' = CashAfter(cash, executed)
          /\ positions' = PositionsAfter(positions, assets[asset_i[t]], executed)
    /\ stop_levels' = LevelsAfterOrder(stop_levels, assets[asset_i[t]], TRUE, order[t])
    /\ Advance(t)
    /\ UNCHANGED <<supervisor, market, test_mode, ticks, clock, previous_value,
                   raised, began, observed>>

\* lines 130-137: place_order returns None, the exchange call having raised
OrderFails(t) ==
    /\ pc[t] = "place"
    /\ ~test_mode
    /\ trade' = [trade EXCEPT ![t] = FailedTrade]
    /\ stop_levels' = LevelsAfterOrder(stop_levels, assets[asset_i[t]], FALSE, order[t])
    /\ Advance(t)
    /\ UNCHANGED <<cash, positions, supervisor, env, clock, previous_value, raised,
                   began, observed>>

\* lines 153-156: the performance snapshot
RecordPerformance(t) ==
    /\ pc[t] = "performance"
    /\ last_performance' =
          Performance(cash, positions, market, previous_value[t], clock)
    /\ pc' = [pc EXCEPT ![t] = "idle"]
    /\ trade' = [trade EXCEPT ![t] = NoTrade]
    /\ previous_value' = [previous_value EXCEPT ![t] = R(0)]
    /\ UNCHANGED <<ledger, last_cycle_start, env, clock, asset_i, strategy_side, history,
                   recommendation, order, raised, began, observed>>

\* The market moves: an asset resolves to another price, or stops resolving.
Tick ==
    /\ ticks < MaxTicks
    /\ ticks' = ticks + 1
    /\ \E c \in Codes, p \in Prices \cup {None} :
          /\ p \in Quotes[c]
          /\ p # market[c]
          /\ market' = [market EXCEPT ![c] = p]
    /\ UNCHANGED <<ledger, supervisor, test_mode, buys, clock, pc, asset_i,
                   previous_value, strategy_side, history, recommendation, order, trade,
                   raised, began, observed>>

\* GET /api/portfolio: cash and positions as they stand
GetPortfolio ==
    /\ observed' = [present |-> TRUE,
                    during |-> IF \E t \in Threads : pc[t] # "idle"
                               THEN last_cycle_start ELSE 0,
                    cash |-> cash,
                    positions |-> positions]
    /\ observed' # observed
    /\ UNCHANGED <<ledger, supervisor, env, clock, pc, asset_i, previous_value,
                   strategy_side, history, recommendation, order, trade, raised, began>>

Step(t) ==
    \/ BeginCycle(t)
    \/ AdviseReturns(t)
    \/ AdviseRaises(t)
    \/ CheckStops(t)
    \/ SizeBuy(t)
    \/ OrderFills(t)
    \/ OrderFails(t)
    \/ RecordPerformance(t)

Init ==
    /\ cash \in {R(c) : c \in InitialCapitals}
    /\ positions = [c \in Codes |-> NoPosition]
    /\ stop_levels = [c \in Codes |-> NoLevel]
    /\ last_cycle_start = 0
    /\ last_performance = NoPerformance
    /\ market = [c \in Codes |-> 10]
    /\ test_mode \in BOOLEAN
    /\ clock = 0
    /\ ticks = 0
    /\ buys = 0
    /\ pc = [t \in Threads |-> "idle"]
    /\ asset_i = [t \in Threads |-> 1]
    /\ previous_value = [t \in Threads |-> R(0)]
    /\ strategy_side = [t \in Threads |-> "hold"]
    /\ history = [t \in Threads |-> "unset"]
    /\ recommendation = [t \in Threads |-> NoRecommendation]
    /\ order = [t \in Threads |-> NoOrder]
    /\ trade = [t \in Threads |-> NoTrade]
    /\ raised = [t \in Threads |-> FALSE]
    /\ began = <<R(0), [c \in Codes |-> NoPosition], [c \in Codes |-> 10]>>
    /\ observed = NoObservation
    /\ input_data = NoData
    /\ input_price = None
    /\ output = NoOutput
    /\ last_details = [r \in Advisors |-> [c \in Codes |-> NoDetails]]
    /\ advised = [r \in Advisors |-> NotAdvised]
    /\ response = NoResponse

\* Cycles one after the other: a single caller of run_once (main.py, run()).
Next == (Tick \/ Step(1)) /\ UNCHANGED calls

Spec == Init /\ [][Next]_vars


\* The host: POST /api/simulate served by two worker threads at once.
InitHost ==
    /\ Init
    /\ cash = R(InitialCash)

NextOverlap == (\E t \in Threads : Step(t)) /\ UNCHANGED calls

SpecOverlap == InitHost /\ [][NextOverlap]_vars

\* The host: GET /api/portfolio served while a cycle runs.
NextRead == (Step(1) \/ GetPortfolio) /\ UNCHANGED calls

SpecRead == InitHost /\ [][NextRead]_vars

(***************************************************************************)
(* Cycles without end: run() calls run_once again and again.  The calls    *)
(* after the MaxCycles-th are not told apart, and the market data is such  *)
(* that the strategy stops saying buy once MaxBuys buys are executed.      *)
(***************************************************************************)
\* lines 68-72: run_once is entered once more
BeginCycleOn(t) ==
    /\ pc[t] = "idle"
    /\ clock = MaxCycles
    /\ clock' = clock
    /\ last_cycle_start' = clock
    /\ previous_value' = [previous_value EXCEPT ![t] = TotalValue(cash, positions, market)]
    /\ asset_i' = [asset_i EXCEPT ![t] = 1]
    /\ pc' = [pc EXCEPT ![t] = "advise"]
    /\ raised' = [raised EXCEPT ![t] = FALSE]
    /\ began' = <<cash, positions, market>>
    /\ UNCHANGED <<ledger, last_performance, env, strategy_side, history, recommendation,
                   order, trade, observed>>

\* line 75: advise returns, not saying buy once MaxBuys buys are executed
AdviseReturnsWithin(t) ==
    /\ AdviseReturns(t)
    /\ buys = MaxBuys => strategy_side'[t] # "buy"

\* lines 130-152: place_order returns a Trade; the partial fills of the
\* exchange are followed through the first MaxCycles calls, after which it
\* fills an order whole or fails it
OrderFillsOn(t) ==
    /\ OrderFills(t)
    /\ clock = MaxCycles => trade'[t].quantity = order[t].quantity

StepOn(t) ==
    \/ BeginCycle(t)
    \/ BeginCycleOn(t)
    \/ AdviseReturnsWithin(t)
    \/ AdviseRaises(t)
    \/ CheckStops(t)
    \/ SizeBuy(t)
    \/ OrderFillsOn(t)
    \/ OrderFails(t)
    \/ RecordPerformance(t)

NextOn == (Tick \/ StepOn(1)) /\ UNCHANGED calls

\* the caller of run_once moves on: every step of StepOn moves pc[t], and
\* no other step of NextOn does
RunsOn(t) ==
    \E p \in {"idle", "advise", "stops", "size", "place", "performance"} \ {pc[t]} :
        pc' = [pc EXCEPT ![t] = p]

\* place_order has returned a Trade
FillsOn(t) ==
    /\ pc[t] = "place"
    /\ pc'[t] # "place"
    /\ trade'[t].kind = "Trade"

\* run() keeps calling run_once and every call it makes returns: the caller
\* moves on again and again.  The exchange does not fail every order for
\* ever: a caller that is placing orders again and again has one filled
\* again and again.
FairOn ==
    /\ WF_pc(RunsOn(1))
    /\ <>[](pc[1] # "place") \/ []<><<FillsOn(1)>>_vars

SpecOn == InitHost /\ [][NextOn]_vars /\ FairOn

(***************************************************************************)
(* POST /api/simulate: simulate_once takes a value of the portfolio, runs   *)
(* one cycle and computes a performance of its own against that value.     *)
(***************************************************************************)
\* what simulate_once leaves alone
beside == <<input_data, input_price, output, last_details, advised>>

\* app.py line 188: previous_value = compute_portfolio_value()
SimulateBegins ==
    /\ pc[1] = "idle"
    /\ response.phase \in {"none", "returned", "raised"}
    /\ clock < MaxCycles
    /\ response' = [phase |-> "called",
                    previous_value |-> PortfolioValue(positions, market),
                    portfolio_value |-> R(0),
                    variation |-> R(0)]
    /\ UNCHANGED <<program, beside>>

\* app.py line 190: supervisor.run_once() is entered
SimulateRuns ==
    /\ response.phase = "called"
    /\ BeginCycle(1)
    /\ response' = [response EXCEPT !.phase = "running"]
    /\ UNCHANGED beside

\* app.py line 190: the cycle goes on
SimulateCycle ==
    /\ response.phase = "running"
    /\ \/ AdviseReturns(1)
       \/ AdviseRaises(1)
       \/ CheckStops(1)
       \/ SizeBuy(1)
       \/ OrderFills(1)
       \/ OrderFails(1)
       \/ RecordPerformance(1)
    /\ UNCHANGED calls

\* app.py lines 192-196: compute_performance(previous_value, now) and the
\* response; an exception of run_once leaves simulate_once with it
SimulateReturns ==
    /\ response.phase = "running"
    /\ pc[1] = "idle"
    /\ response' =
          IF raised[1]
          THEN [response EXCEPT !.phase = "raised"]
          ELSE LET performance == Performance(cash, positions, market,
                                              response.previous_value, clock)
               IN  [phase |-> "returned",
                    previous_value |-> response.previous_value,
                    portfolio_value |-> performance.portfolio_value,
                    variation |-> performance.variation]
    /\ UNCHANGED <<program, beside>>

NextSimulate ==
    \/ SimulateBegins
    \/ SimulateRuns
    \/ SimulateCycle
    \/ SimulateReturns
    \/ Tick /\ UNCHANGED calls

SpecSimulate == InitHost /\ [][NextSimulate]_vars

(***************************************************************************)
(* Direct calls of the strategies, of _rsi and of update_position, on      *)
(* arguments drawn from the sets above.                                    *)
(***************************************************************************)
\* Windows and thresholds (in percent) a basic strategy is built with.
BasicWindows == 1..(MaxHist + 1)
BasicThresholds == {0, ThresholdPct}
\* Periods _rsi is called with.
RsiPeriods == 1..MaxHist
\* Prices a strategy is called with: those of the market, one between them
\* and one above every historical price.
InputPrices == Prices \cup {12, 30}

\* EnhancedSMAStrategy.generate_recommendations is called
GenerateEnhanced ==
    /\ output.kind = "none"
    /\ LET rec == EnhancedRecommendation(input_data, input_price)
       IN  output' = [NoOutput EXCEPT !.kind = "enhanced", !.rec = rec,
                        !.price = PriceReturned(rec, input_price)]
    /\ UNCHANGED <<program, input_data, input_price, others>>

\* SimpleMovingAverageStrategy.generate_recommendations is called
GenerateBasic ==
    /\ output.kind = "none"
    /\ \E window \in BasicWindows, threshold \in BasicThresholds :
          LET rec == BasicRecommendation(input_data.prices, input_price,
                                         window, threshold)
          IN  output' = [NoOutput EXCEPT !.kind = "basic", !.param = window,
                           !.threshold = threshold, !.rec = rec,
                           !.price = PriceReturned(rec, input_price)]
    /\ UNCHANGED <<program, input_data, input_price, others>>

\* EnhancedSMAStrategy._rsi is called
ComputeRsi ==
    /\ output.kind = "none"
    /\ \E period \in RsiPeriods :
          output' = [NoOutput EXCEPT !.kind = "rsi", !.param = period,
                       !.value = Rsi(input_data.prices, period)]
    /\ UNCHANGED <<program, input_data, input_price, others>>

\* Volume windows a strategy is built with.
VolumeWindows == 1..MaxHist

\* lines 191-197 of EnhancedSMAStrategy.generate_recommendations: the volume
\* confirmation is evaluated
ConfirmVolume ==
    /\ output.kind = "none"
    /\ \E volume_window \in VolumeWindows :
          output' = [NoOutput EXCEPT !.kind = "volume", !.param = volume_window,
                       !.ok = VolumeOkWindow(input_data.volumes, volume_window)]
    /\ UNCHANGED <<program, input_data, input_price, others>>

InitStrategy ==
    /\ cash = R(InitialCash)
    /\ positions = [c \in Codes |-> NoPosition]
    /\ stop_levels = [c \in Codes |-> NoLevel]
    /\ last_cycle_start = 0
    /\ last_performance = NoPerformance
    /\ market = [c \in Codes |-> 10]
    /\ test_mode = TRUE
    /\ clock = 0
    /\ ticks = 0
    /\ buys = 0
    /\ pc = [t \in Threads |-> "idle"]
    /\ asset_i = [t \in Threads |-> 1]
    /\ previous_value = [t \in Threads |-> R(0)]
    /\ strategy_side = [t \in Threads |-> "hold"]
    /\ history = [t \in Threads |-> "unset"]
    /\ recommendation = [t \in Threads |-> NoRecommendation]
    /\ order = [t \in Threads |-> NoOrder]
    /\ trade = [t \in Threads |-> NoTrade]
    /\ raised = [t \in Threads |-> FALSE]
    /\ began = <<R(0), [c \in Codes |-> NoPosition], [c \in Codes |-> 10]>>
    /\ observed = NoObservation
    /\ input_data \in HistoricalData
    /\ input_price \in InputPrices
    /\ output = NoOutput
    /\ last_details = [r \in Advisors |-> [c \in Codes |-> NoDetails]]
    /\ advised = [r \in Advisors |-> NotAdvised]
    /\ response = NoResponse

NextStrategy == GenerateEnhanced \/ GenerateBasic \/ ComputeRsi \/ ConfirmVolume

SpecStrategy == InitStrategy /\ [][NextStrategy]_vars

\* Amounts a position holds and quantities a trade carries when
\* update_position is called directly.
HeldAmounts == {R(0), R(1), R(2)}
TradeQuantities == {<<1, 2>>, R(1), R(3)}

\* PortfolioManager.update_position is called
UpdatePosition ==
    /\ output.kind = "none"
    /\ \E code \in Codes, side \in {"buy", "sell"}, quantity \in TradeQuantities,
          price \in Prices :
          LET executed == [kind |-> "Trade", side |-> side, quantity |-> quantity,
                           price |-> price]
          IN  /\ cash' = CashAfter(cash, executed)
              /\ positions' = PositionsAfter(positions, code, executed)
              /\ output' = [NoOutput EXCEPT !.kind = "update", !.code = code,
                                            !.trade = executed]
    /\ UNCHANGED <<stop_levels, supervisor, env, clock, pc, asset_i, previous_value,
                   strategy_side, history, recommendation, order, trade, raised,
                   began, observed, input_data, input_price, others>>

\* A ledger as a sequence of trades can have left it.
InitLedger ==
    /\ cash \in {R(c) : c \in InitialCapitals}
    /\ positions \in [Codes -> {NoPosition} \cup
                                {[present |-> TRUE, amount |-> a] : a \in HeldAmounts}]
    /\ stop_levels = [c \in Codes |-> NoLevel]
    /\ last_cycle_start = 0
    /\ last_performance = NoPerformance
    /\ market = [c \in Codes |-> 10]
    /\ test_mode = TRUE
    /\ clock = 0
    /\ ticks = 0
    /\ buys = 0
    /\ pc = [t \in Threads |-> "idle"]
    /\ asset_i = [t \in Threads |-> 1]
    /\ previous_value = [t \in Threads |-> R(0)]
    /\ strategy_side = [t \in Threads |-> "hold"]
    /\ history = [t \in Threads |-> "unset"]
    /\ recommendation = [t \in Threads |-> NoRecommendation]
    /\ order = [t \in Threads |-> NoOrder]
    /\ trade = [t \in Threads |-> NoTrade]
    /\ raised = [t \in Threads |-> FALSE]
    /\ began = <<R(0), [c \in Codes |-> NoPosition], [c \in Codes |-> 10]>>
    /\ observed = NoObservation
    /\ input_data = NoData
    /\ input_price = None
    /\ output = NoOutput
    /\ last_details = [r \in Advisors |-> [c \in Codes |-> NoDetails]]
    /\ advised = [r \in Advisors |-> NotAdvised]
    /\ response = NoResponse

NextLedger == UpdatePosition

SpecLedger == InitLedger /\ [][NextLedger]_vars

(***************************************************************************)
(* The arithmetic of a buy in binary floating point: every operation       *)
(* rounds its exact result to the nearest number with Precision            *)
(* significant bits, ties to even, as Python's float does with 53.         *)
(***************************************************************************)
Precision == 4
Exponents == -16..12

RECURSIVE Pow2(_)
Pow2(k) == IF k = 0 THEN 1 ELSE 2 * Pow2(k - 1)

\* the float nearest to the exact x
Round(x) ==
    IF x[1] = 0
    THEN R(0)
    ELSE LET n == Abs(x[1])
             d == x[2]
             sign == IF x[1] < 0 THEN -1 ELSE 1
             Scaled(k) == IF k >= 0 THEN <<n, d * Pow2(k)>> ELSE <<n * Pow2(0 - k), d>>
             e == CHOOSE k \in Exponents :
                     /\ Pow2(Precision - 1) * Scaled(k)[2] <= Scaled(k)[1]
                     /\ Scaled(k)[1] < Pow2(Precision) * Scaled(k)[2]
             whole == Scaled(e)[1] \div Scaled(e)[2]
             rest == Scaled(e)[1] - whole * Scaled(e)[2]
             m == IF 2 * rest > Scaled(e)[2] \/ (2 * rest = Scaled(e)[2] /\ whole % 2 = 1)
                  THEN whole + 1 ELSE whole
         IN  IF e >= 0 THEN Norm(sign * m * Pow2(e), 1) ELSE Norm(sign * m, Pow2(0 - e))

FAdd(x, y) == Round(RAdd(x, y))
FSub(x, y) == Round(RSub(x, y))
FMul(x, y) == Round(RMul(x, y))
FDiv(x, y) == Round(RDiv(x, y))

\* Cash, price and amount held of the first asset when the buy is sized.
FloatCash == 1..15
FloatPrices == 1..15
FloatAmounts == {0, 64}

\* lines 108-139 for a buy in test mode, with update_position, in floats:
\* the order is sized from cash and total value and applied as requested
BuyInFloats ==
    /\ output.kind = "none"
    /\ LET code == assets[1]
           current_price == R(market[code])
           positions_value == IF positions[code].present
                              THEN FMul(positions[code].amount, current_price)
                              ELSE R(0)
           total_value == FAdd(cash, positions_value)
           max_investment == FMul(total_value, Round(Pct(MaxRiskPct)))
           invest_dollars == RMin(cash, max_investment)
           quantity == FDiv(invest_dollars, current_price)
           trade_value == FMul(current_price, quantity)
           held == IF positions[code].present THEN positions[code].amount ELSE R(0)
       IN  /\ RLt(R(0), quantity)
           /\ cash' = FSub(cash, trade_value)
           /\ positions' = [positions EXCEPT ![code] =
                               [present |-> TRUE, amount |-> FAdd(held, quantity)]]
           /\ output' = [NoOutput EXCEPT !.kind = "buy", !.code = code,
                            !.trade = [kind |-> "Trade", side |-> "buy",
                                       quantity |-> quantity, price |-> market[code]]]
    /\ UNCHANGED <<stop_levels, supervisor, env, clock, pc, asset_i, previous_value,
                   strategy_side, history, recommendation, order, trade, raised,
                   began, observed, input_data, input_price, others>>

\* A ledger before a buy: some cash, and the first asset held or not.
InitFloat ==
    /\ cash \in {R(c) : c \in FloatCash}
    /\ \E a \in FloatAmounts :
          positions = [c \in Codes |->
                         IF c = assets[1] /\ a > 0
                         THEN [present |-> TRUE, amount |-> R(a)] ELSE NoPosition]
    /\ stop_levels = [c \in Codes |-> NoLevel]
    /\ last_cycle_start = 0
    /\ last_performance = NoPerformance
    /\ \E p \in FloatPrices : market = [c \in Codes |-> p]
    /\ test_mode = TRUE
    /\ clock = 0
    /\ ticks = 0
    /\ buys = 0
    /\ pc = [t \in Threads |-> "idle"]
    /\ asset_i = [t \in Threads |-> 1]
    /\ previous_value = [t \in Threads |-> R(0)]
    /\ strategy_side = [t \in Threads |-> "hold"]
    /\ history = [t \in Threads |-> "unset"]
    /\ recommendation = [t \in Threads |-> NoRecommendation]
    /\ order = [t \in Threads |-> NoOrder]
    /\ trade = [t \in Threads |-> NoTrade]
    /\ raised = [t \in Threads |-> FALSE]
    /\ began = <<R(0), [c \in Codes |-> NoPosition], [c \in Codes |-> 10]>>
    /\ observed = NoObservation
    /\ input_data = NoData
    /\ input_price = None
    /\ output = NoOutput
    /\ last_details = [r \in Advisors |-> [c \in Codes |-> NoDetails]]
    /\ advised = [r \in Advisors |-> NotAdvised]
    /\ response = NoResponse

NextFloat == BuyInFloats

SpecFloat == InitFloat /\ [][NextFloat]_vars

\* What last_details can hold when advise is called: per asset nothing, or
\* the entry an earlier call left.
StaleDetails == [present |-> TRUE, short_sma |-> R(10), long_sma |-> NoneR,
                 rsi |-> NoneR, current_price |-> 10, recommendation |-> "buy"]
DetailsTables == [Codes -> {NoDetails, StaleDetails}]

\* advise answering from the entry of last_details, where there is one
AdviseFromDetails(details, code, historical_data, current_price) ==
    IF details[code].present
    THEN [returned |-> [called |-> TRUE, raised |-> FALSE,
                        side |-> details[code].recommendation,
                        price |-> current_price],
          last_details |-> details]
    ELSE [returned |-> [called |-> TRUE, raised |-> FALSE, side |-> "hold",
                        price |-> current_price],
          last_details |-> details]

\* AssetAdvisor.advise(asset): what it returns and what it leaves in
\* last_details, given what get_price and get_historical_data returned
Advise(details, code, historical_data, current_price) ==
    IF current_price = None
    THEN [returned |-> [called |-> TRUE, raised |-> FALSE, side |-> "hold",
                        price |-> None],
          last_details |-> details]
    ELSE LET rec == EnhancedRecommendation(historical_data, current_price)
             prices == historical_data.prices
         IN  IF rec.raised
             THEN [returned |-> [called |-> TRUE, raised |-> TRUE, side |-> "hold",
                                 price |-> None],
                   last_details |-> details]
             ELSE [returned |-> [called |-> TRUE, raised |-> FALSE,
                                 side |-> rec.side, price |-> current_price],
                   last_details |->
                      [details EXCEPT ![code] =
                          [present |-> TRUE,
                           short_sma |-> Sma(prices, ShortWindow),
                           long_sma |-> Sma(prices, LongWindow),
                           rsi |-> IF Len(prices) > 0 THEN Rsi(prices, RsiPeriod)
                                   ELSE NoneR,
                           current_price |-> current_price,
                           recommendation |-> rec.side]]]

\* advise is called on one of the two advisors, for the asset output.code
AdviseCalled(r) ==
    /\ ~advised[r].called
    /\ LET result == Advise(last_details[r], output.code, input_data, input_price)
       IN  /\ advised' = [advised EXCEPT ![r] = result.returned]
           /\ last_details' = [last_details EXCEPT ![r] = result.last_details]
    /\ UNCHANGED <<program, input_data, input_price, output, response>>

\* Two advisors over the same market data, their last_details differing.
InitAdvise ==
    /\ cash = R(InitialCash)
    /\ positions = [c \in Codes |-> NoPosition]
    /\ stop_levels = [c \in Codes |-> NoLevel]
    /\ last_cycle_start = 0
    /\ last_performance = NoPerformance
    /\ market = [c \in Codes |-> 10]
    /\ test_mode = TRUE
    /\ clock = 0
    /\ ticks = 0
    /\ buys = 0
    /\ pc = [t \in Threads |-> "idle"]
    /\ asset_i = [t \in Threads |-> 1]
    /\ previous_value = [t \in Threads |-> R(0)]
    /\ strategy_side = [t \in Threads |-> "hold"]
    /\ history = [t \in Threads |-> "unset"]
    /\ recommendation = [t \in Threads |-> NoRecommendation]
    /\ order = [t \in Threads |-> NoOrder]
    /\ trade = [t \in Threads |-> NoTrade]
    /\ raised = [t \in Threads |-> FALSE]
    /\ began = <<R(0), [c \in Codes |-> NoPosition], [c \in Codes |-> 10]>>
    /\ observed = NoObservation
    /\ input_data \in HistoricalData
    /\ input_price \in InputPrices \cup {None}
    /\ \E c \in Codes : output = [NoOutput EXCEPT !.code = c]
    /\ last_details \in [Advisors -> DetailsTables]
    /\ advised = [r \in Advisors |-> NotAdvised]
    /\ response = NoResponse

NextAdvise == \E r \in Advisors : AdviseCalled(r)

SpecAdvise == InitAdvise /\ [][NextAdvise]_vars

(***************************************************************************)
(* Properties.                                                             *)
(***************************************************************************)
Held(c) == positions[c].present /\ RLt(R(0), positions[c].amount)

\* The asset a thread is working on.
Current(t) == assets[asset_i[t]]

\* C1: when the asset is held with a stop level and the cycle's price is at
\* or below the stop loss or the recomputed trailing stop, the recommendation
\* acted on is sell whatever the strategy said: no buy is sized or placed,
\* the only order placed is a sell.
StopOverridesStrategy ==
    \A t \in Threads :
       LET c == Current(t)
           price == recommendation[t].price
       IN  (/\ pc[t] \in {"size", "place"}
            /\ Held(c)
            /\ stop_levels[c].present
            /\ \/ RLe(R(price), stop_levels[c].stop_loss)
               \/ RLe(R(price), stop_levels[c].trailing_stop))
           => /\ pc[t] = "place"
              /\ recommendation[t].side = "sell"
              /\ order[t].side = "sell"

\* C1 witness: the strategy said buy, the price is above the stop loss but
\* at or below the trailing stop, and a sell is placed.
StopOverridesStrategyWitness ==
    /\ pc[1] = "place"
    /\ strategy_side[1] = "buy"
    /\ order[1].side = "sell"
    /\ RLt(stop_levels[Current(1)].stop_loss, R(order[1].price))
    /\ RLe(R(order[1].price), stop_levels[Current(1)].trailing_stop)

\* C2 as stated: after every completed cycle an asset has a stop level
\* exactly when its position amount is positive.
StopLevelIffHeld ==
    (pc[1] = "idle" /\ ~raised[1]) => \A c \in Codes : stop_levels[c].present <=> Held(c)

FailedOrderChangesNothing ==
    [][\A t \in Threads :
          (pc[t] = "place" /\ trade'[t].kind = "None") =>
             /\ cash' = cash
             /\ positions' = positions
             /\ stop_levels' = stop_levels
             /\ IF asset_i[t] < Len(assets)
                THEN pc'[t] = "advise" /\ asset_i'[t] = asset_i[t] + 1
                ELSE pc'[t] = "performance"]_vars

\* C4 witness: the sell of the first, held asset failed and the loop is at
\* the second asset.
FailedOrderChangesNothingWitness ==
    /\ trade[1].kind = "None"
    /\ pc[1] = "advise"
    /\ asset_i[1] = 2
    /\ stop_levels[assets[1]].present

\* C5 as stated: while an asset stays held, highest_price and trailing_stop
\* never decrease, a further buy of the asset included.
HighestNeverDecreases ==
    [][\A c \in Codes :
          (Held(c) /\ Held(c)' /\ stop_levels[c].present /\ stop_levels'[c].present) =>
             /\ stop_levels'[c].highest_price >= stop_levels[c].highest_price
             /\ RLe(stop_levels[c].trailing_stop, stop_levels'[c].trailing_stop)]_vars

\* A buy of c is executed in this step.
BuyExecuted(c) ==
    \E t \in Threads :
       /\ pc[t] = "place"
       /\ Current(t) = c
       /\ order[t].side = "buy"
       /\ trade'[t].kind = "Trade"

\* C5 amended: while an asset stays held, highest_price and trailing_stop
\* never decrease in a step that is not an executed buy of that asset; an
\* executed buy replaces the level, highest_price becoming the buy price.
HighestNeverDecreasesButOnBuy ==
    [][\A c \in Codes :
          (Held(c) /\ Held(c)' /\ stop_levels[c].present /\ stop_levels'[c].present) =>
             IF BuyExecuted(c)
             THEN \E t \in Threads :
                     /\ pc[t] = "place" /\ Current(t) = c
                     /\ stop_levels'[c].highest_price = order[t].price
                     /\ stop_levels'[c].trailing_stop =
                           RMul(R(order[t].price), OneMinus(TrailingStopPct))
             ELSE /\ stop_levels'[c].highest_price >= stop_levels[c].highest_price
                  /\ RLe(stop_levels[c].trailing_stop, stop_levels'[c].trailing_stop)]_vars

\* C5 witness: a held asset whose highest price has risen above its entry.
HighestNeverDecreasesWitness ==
    \E c \in Codes :
       /\ Held(c)
       /\ stop_levels[c].present
       /\ stop_levels[c].highest_price > stop_levels[c].entry_price

\* C6 as stated: a sell is placed for the whole held amount, which is
\* positive; once filled the amount is zero; with no position or none held no
\* sell is placed.
SellLeavesNothing ==
    [][\A t \in Threads :
          LET c == Current(t)
          IN  /\ (pc[t] = "stops" /\ pc'[t] = "place") =>
                    /\ order'[t].side = "sell"
                    /\ Held(c)
                    /\ order'[t].quantity = positions[c].amount
              /\ (pc[t] = "place" /\ order[t].side = "sell") =>
                    /\ order[t].quantity = positions[c].amount
                    /\ trade'[t].kind = "Trade" => positions'[c].amount = R(0)]_vars

\* C6 amended: a sell is placed for the whole held amount, which is positive,
\* and none is placed with no position or none held; once filled the amount
\* is what was held less the quantity of the returned trade, which is zero
\* when the trade is for the quantity requested, as it is in test mode.
SellsWholePosition ==
    [][\A t \in Threads :
          LET c == Current(t)
          IN  /\ (pc[t] = "stops" /\ pc'[t] = "place") =>
                    /\ order'[t].side = "sell"
                    /\ Held(c)
                    /\ order'[t].quantity = positions[c].amount
              /\ (pc[t] = "place" /\ order[t].side = "sell") =>
                    /\ order[t].quantity = positions[c].amount
                    /\ trade'[t].kind = "Trade" =>
                          /\ positions'[c].amount =
                                RSub(positions[c].amount, trade'[t].quantity)
                          /\ trade'[t].quantity = order[t].quantity =>
                                positions'[c].amount = R(0)
                          /\ test_mode => positions'[c].amount = R(0)]_vars

\* C6 witness: a sell has just been filled for the quantity requested and
\* the position is at zero.
SellsWholePositionWitness ==
    /\ trade[1].kind = "Trade"
    /\ trade[1].side = "sell"
    /\ pc[1] = "advise"
    /\ positions[assets[1]].present
    /\ positions[assets[1]].amount = R(0)

\* The stop check of thread t, as lines 79-89 decide it, overrides to sell.
Overrides(t) ==
    LET c == Current(t)
        price == recommendation[t].price
        highest == IF price > stop_levels[c].highest_price
                   THEN price ELSE stop_levels[c].highest_price
    IN  /\ Held(c)
        /\ stop_levels[c].present
        /\ price # None
        /\ price # 0
        /\ \/ RLe(R(price), stop_levels[c].stop_loss)
           \/ RLe(R(price), RMul(R(highest), OneMinus(TrailingStopPct)))

\* C7: when the recommendation acted on is hold, or no usable price is
\* available (None, or 0), no order is placed and cash, positions and the membership of
\* the stop-level table stay; only the asset's highest_price and
\* trailing_stop may change.
HoldChangesNothing ==
    [][\A t \in Threads :
          (/\ pc[t] = "stops"
           /\ pc'[t] # "stops"
           /\ \/ recommendation[t].price \in {None, 0}
              \/ recommendation[t].side = "hold" /\ ~Overrides(t)) =>
             /\ pc'[t] \in {"advise", "performance"}
             /\ order'[t] = NoOrder
             /\ cash' = cash
             /\ positions' = positions
             /\ \A c \in Codes :
                   /\ stop_levels'[c].present = stop_levels[c].present
                   /\ stop_levels'[c].entry_price = stop_levels[c].entry_price
                   /\ stop_levels'[c].stop_loss = stop_levels[c].stop_loss
                   /\ c # Current(t) => stop_levels'[c] = stop_levels[c]]_vars

\* C7 witness: the first asset was held on hold at a higher price: its
\* highest price rose, no order was placed, the loop is at the second asset.
HoldChangesNothingWitness ==
    /\ pc[1] = "advise"
    /\ asset_i[1] = 2
    /\ trade[1].kind = "unset"
    /\ clock = 2
    /\ Held(assets[1])
    /\ stop_levels[assets[1]].highest_price > stop_levels[assets[1]].entry_price

\* C8 as stated: whatever fails for one asset, the cycle goes on and ends by
\* storing its performance snapshot.
CycleSurvivesAssetFailure ==
    (pc[1] = "idle" /\ clock > 0) =>
       /\ ~raised[1]
       /\ last_performance.present
       /\ last_performance.datetime = clock

\* C9 as stated: no cycle starts while another one is running.
CyclesNeverOverlap ==
    Cardinality({t \in Threads : pc[t] # "idle"}) <= 1

\* C10 as stated: what a read returned while a cycle was in flight is the
\* ledger as it stood when the cycle began or as it stands once it completed.
ReadSeesCycleBoundary ==
    (/\ pc[1] = "idle"
     /\ observed.present
     /\ observed.during > 0
     /\ observed.during = last_cycle_start) =>
       \/ <<observed.cash, observed.positions>> = <<began[1], began[2]>>
       \/ <<observed.cash, observed.positions>> = <<cash, positions>>


\* The price the step of thread t works with for asset c, if it has one.
Observes(t, c) ==
    /\ Current(t) = c
    /\ pc[t] \in {"stops", "size", "place"}
    /\ Truthy(recommendation[t].price)

\* C11: while an asset stays held and no cycle sees a price below an earlier
\* one (the price a step works with is at least the highest since entry),
\* the trailing stop does not decrease; and at the end of every cycle the
\* trailing stop is at most highest_price x (1 - trailing_stop_pct).
TrailingFollowsRisingPrice ==
    [][/\ \A c \in Codes :
            (/\ Held(c) /\ Held(c)'
             /\ stop_levels[c].present /\ stop_levels'[c].present
             /\ \A t \in Threads :
                   Observes(t, c) =>
                      recommendation[t].price >= stop_levels[c].highest_price)
            => RLe(stop_levels[c].trailing_stop, stop_levels'[c].trailing_stop)
       /\ \A t \in Threads :
            (pc[t] # "idle" /\ pc'[t] = "idle") =>
               \A c \in Codes :
                  stop_levels'[c].present =>
                     RLe(stop_levels'[c].trailing_stop,
                         RMul(R(stop_levels'[c].highest_price),
                              OneMinus(TrailingStopPct)))]_vars

\* C11 witness: a cycle has ended with an asset held whose trailing stop has
\* risen above the one set at entry.
TrailingFollowsRisingPriceWitness ==
    /\ pc[1] = "idle"
    /\ ~raised[1]
    /\ \E c \in Codes :
          /\ Held(c)
          /\ stop_levels[c].present
          /\ RLt(RMul(R(stop_levels[c].entry_price), OneMinus(TrailingStopPct)),
                 stop_levels[c].trailing_stop)


\* Cash plus amount x price of the two positions, those with no price left out.
Worth(csh, pos, mkt) ==
    LET of(c) == IF pos[c].present /\ mkt[c] # None
                 THEN RMul(pos[c].amount, R(mkt[c])) ELSE R(0)
    IN  RAdd(csh, RAdd(of(assets[1]), of(assets[2])))

\* C12: when run_once completes, last_performance holds cash + positions
\* value at that moment, and variation = (that value - the total value when
\* the cycle was entered) / the value at entry, or 0 when the value at entry
\* is not positive; with cash, positions and prices as at entry it is 0.
SnapshotComparesWithCycleStart ==
    [][\A t \in Threads :
          (pc[t] = "performance" /\ pc'[t] = "idle") =>
             LET end_value == Worth(cash, positions, market)
                 start_value == Worth(began[1], began[2], began[3])
             IN  /\ last_performance'.present
                 /\ last_performance'.datetime = clock
                 /\ last_performance'.portfolio_value = end_value
                 /\ last_performance'.variation =
                       IF RLt(R(0), start_value)
                       THEN RDiv(RSub(end_value, start_value), start_value)
                       ELSE R(0)
                 /\ <<cash, positions, market>> = began =>
                       last_performance'.variation = R(0)]_vars

\* C12 witness: a completed cycle whose snapshot shows a loss or a gain.
SnapshotComparesWithCycleStartWitness ==
    /\ pc[1] = "idle"
    /\ last_performance.present
    /\ last_performance.datetime = clock
    /\ last_performance.variation # R(0)


\* The thread leaves the stop check of its asset with the price or the
\* historical series unresolved.
LeavesCheckUnresolved(t) ==
    /\ pc[t] = "stops"
    /\ pc'[t] # "stops"
    /\ recommendation[t].price = None \/ history[t] = "unresolved"

\* C13 as stated: an asset whose current price or historical series did not
\* resolve in the cycle gets no order in that cycle, neither buy nor sell.
UnresolvedDataPlacesNoOrder ==
    [][\A t \in Threads :
          LeavesCheckUnresolved(t) => pc'[t] \notin {"size", "place"}]_vars

\* C13 amended: with the price unresolved the asset gets no order; with only
\* the historical series unresolved it gets no buy, and a sell only when the
\* asset is held and the price is at or below its stop loss or trailing
\* stop; without an order cash and positions stay as they are and the loop
\* moves on with nothing kept of the asset's recommendation.
UnresolvedDataPlacesNoOrderButStop ==
    [][\A t \in Threads :
          LeavesCheckUnresolved(t) =>
             LET c == Current(t)
                 current_price == recommendation[t].price
             IN  /\ pc'[t] # "size"
                 /\ pc'[t] = "place" =>
                       /\ current_price # None
                       /\ order'[t].side = "sell"
                       /\ order'[t].quantity = positions[c].amount
                       /\ Held(c)
                       /\ stop_levels[c].present
                       /\ \/ RLe(R(current_price), stop_levels'[c].stop_loss)
                          \/ RLe(R(current_price), stop_levels'[c].trailing_stop)
                 /\ pc'[t] # "place" =>
                       /\ pc'[t] \in {"advise", "performance"}
                       /\ order'[t] = NoOrder
                       /\ recommendation'[t] = NoRecommendation
                       /\ history'[t] = "unset"
                       /\ UNCHANGED <<cash, positions>>]_vars

\* C13 witness: the historical series did not resolve, the price fell to a
\* stop of the held asset, and the sell of the position is about to be placed.
UnresolvedDataPlacesNoOrderButStopWitness ==
    /\ pc[1] = "place"
    /\ history[1] = "unresolved"
    /\ strategy_side[1] = "hold"
    /\ order[1].side = "sell"


\* No change among the last `period` ones of the series is a loss.
NoLoss(prices, period) ==
    \A k \in (Len(prices) - period + 1)..Len(prices) : prices[k] >= prices[k - 1]

\* C14: whatever the series and the resolved price, both strategy variants
\* return a recommendation and do not raise; a series whose average is zero
\* gives hold with confidence 0; a window of changes without a loss gives an
\* RSI of 100.
StrategiesNeverRaise ==
    /\ output.kind \in {"enhanced", "basic"} =>
          /\ ~output.rec.raised
          /\ (\A k \in 1..Len(input_data.prices) : input_data.prices[k] = 0) =>
                output.rec = Hold
    /\ output.kind = "rsi" /\ Len(input_data.prices) >= output.param + 1
          /\ NoLoss(input_data.prices, output.param) =>
             output.value = R(100)

\* C15: the basic variant, given fewer prices than its window, holds with
\* confidence 0, whatever the price and the threshold.
BasicHoldsOnShortSeries ==
    output.kind = "basic" /\ Len(input_data.prices) < output.param =>
       output.rec = Hold


\* C16: the enhanced variant, given at least long_window prices and a price
\* at or below their long SMA, never answers buy.
NoBuyAtOrBelowLongSma ==
    /\ output.kind = "enhanced"
    /\ Len(input_data.prices) >= LongWindow
    /\ input_price * LongWindow <= SumSeq(LastN(input_data.prices, LongWindow))
    => output.rec.side # "buy"

\* C16 witness: a call that returned with the price above the short SMA by
\* more than the threshold, on rising volume, and yet at or below the long SMA.
NoBuyAtOrBelowLongSmaWitness ==
    /\ output.kind = "enhanced"
    /\ ~output.rec.raised
    /\ Len(input_data.prices) >= LongWindow
    /\ input_price * LongWindow <= SumSeq(LastN(input_data.prices, LongWindow))
    /\ input_price * ShortWindow * 100 >
          SumSeq(LastN(input_data.prices, ShortWindow)) * (100 + ThresholdPct)
    /\ VolumeOk(input_data.volumes)
    /\ output.rec.side = "hold"


LedgerAppliesTradeAsIs ==
    [][output'.kind = "update" /\ output.kind = "none" =>
          LET tr == output'.trade
              c == output'.code
              trade_value == RMul(R(tr.price), tr.quantity)
              held == IF positions[c].present THEN positions[c].amount ELSE R(0)
          IN  /\ positions'[c].present
              /\ tr.side = "buy" =>
                    /\ cash' = RSub(cash, trade_value)
                    /\ positions'[c].amount = RAdd(held, tr.quantity)
              /\ tr.side = "sell" =>
                    /\ cash' = RAdd(cash, trade_value)
                    /\ positions'[c].amount = RSub(held, tr.quantity)
                    /\ RLt(held, tr.quantity) => RLt(positions'[c].amount, R(0))
              /\ \A d \in Codes \ {c} : positions'[d] = positions[d]]_vars

\* C18 witness: a sell of more than was held has been applied and the
\* position of the asset is negative, that of the other asset held.
LedgerAppliesTradeAsIsWitness ==
    /\ output.kind = "update"
    /\ output.trade.side = "sell"
    /\ RLt(positions[output.code].amount, R(0))
    /\ \E d \in Codes \ {output.code} : Held(d)


\* The gates of the enhanced variant on the arguments of the call, written
\* with sums in place of averages.  delta is (price - short SMA) / short SMA.
ShortSum == SumSeq(LastN(input_data.prices, ShortWindow))
LongSum == SumSeq(LastN(input_data.prices, LongWindow))
LongDefined == Len(input_data.prices) >= LongWindow
DeltaOver ==
    ShortSum > 0 /\ (input_price * ShortWindow - ShortSum) * 100 > ThresholdPct * ShortSum
DeltaUnder ==
    ShortSum > 0 /\ (input_price * ShortWindow - ShortSum) * 100 < 0 - ThresholdPct * ShortSum
VolumeRising ==
    LET recent == LastN(input_data.volumes, VolumeWindow)
    IN  recent[VolumeWindow] * (VolumeWindow - 1) > SumSeq(SubSeq(recent, 1, VolumeWindow - 1))
NearResistance ==
    LET high == SeqMax(LastN(input_data.prices, LongWindow))
    IN  LongDefined /\ (high - input_price) * 100 <= MarginPct * high
NearSupport ==
    LET low == SeqMin(LastN(input_data.prices, LongWindow))
    IN  LongDefined /\ (input_price - low) * 100 <= MarginPct * low
RsiValue == Rsi(input_data.prices, RsiPeriod)

BuyApplies ==
    /\ DeltaOver
    /\ ~LongDefined \/ input_price * LongWindow > LongSum
    /\ Len(input_data.volumes) < VolumeWindow \/ VolumeRising
    /\ ~NearResistance
    /\ RsiValue = NoneR \/ RLe(RsiValue, R(Overbought))

SellApplies ==
    /\ ~BuyApplies
    /\ DeltaUnder
    /\ ~LongDefined \/ input_price * LongWindow < LongSum
    /\ ~NearSupport
    /\ RsiValue = NoneR \/ RLe(R(Oversold), RsiValue)

\* C19: the enhanced variant, given at least short_window prices, answers buy
\* exactly when the deviation is over the threshold and the long-SMA, volume,
\* resistance and RSI gates pass; sell exactly when buy does not apply, the
\* deviation is under minus the threshold and the long-SMA, support and RSI
\* gates pass; and hold otherwise.
EnhancedDecidesByGates ==
    output.kind = "enhanced" /\ Len(input_data.prices) >= ShortWindow =>
       /\ ~output.rec.raised
       /\ output.rec.side = IF BuyApplies THEN "buy"
                            ELSE IF SellApplies THEN "sell" ELSE "hold"


WithinBelowHigh ==
    LET high == SeqMax(LastN(input_data.prices, LongWindow))
    IN  (100 - MarginPct) * high <= 100 * input_price /\ input_price <= high
WithinAboveLow ==
    LET low == SeqMin(LastN(input_data.prices, LongWindow))
    IN  low <= input_price /\ 100 * input_price <= (100 + MarginPct) * low

BuyButResistance ==
    /\ DeltaOver
    /\ input_price * LongWindow > LongSum
    /\ Len(input_data.volumes) < VolumeWindow \/ VolumeRising
    /\ RsiValue = NoneR \/ RLe(RsiValue, R(Overbought))

SellButSupport ==
    /\ DeltaUnder
    /\ input_price * LongWindow < LongSum
    /\ RsiValue = NoneR \/ RLe(R(Oversold), RsiValue)

\* C21: with at least long_window prices, a buy that passes the other gates
\* is blocked exactly when the price is within 2% below the recent high, and
\* a sell that passes the other gates exactly when the price is within 2%
\* above the recent low; a price above the high or below the low is not
\* blocked.
GatesBlockWithinBand ==
    output.kind = "enhanced" /\ LongDefined /\ ~output.rec.raised =>
       /\ BuyButResistance => (output.rec.side # "buy" <=> WithinBelowHigh)
       /\ SellButSupport /\ ~BuyButResistance =>
             (output.rec.side # "sell" <=> WithinAboveLow)


\* C22: when one volume point only enters the average (one volume available,
\* or a volume window of 1), the volume confirmation passes.
SinglePointVolumePasses ==
    /\ output.kind = "volume"
    /\ Len(input_data.volumes) >= 1
    /\ Len(input_data.volumes) = 1 \/ output.param = 1
    => output.ok


\* C23 as stated: the basic variant, given an empty series, returns hold with
\* confidence 0 and no price, whatever the current price.
BasicOnEmptySeriesHasNoPrice ==
    output.kind = "basic" /\ Len(input_data.prices) = 0 =>
       output.rec = Hold /\ output.price = None

\* C23 amended: the basic variant, given an empty series, returns hold with
\* confidence 0 and the current price it was passed, whatever that price,
\* the window and the threshold.
BasicOnEmptySeriesKeepsPrice ==
    output.kind = "basic" /\ Len(input_data.prices) = 0 =>
       /\ ~output.rec.raised
       /\ output.rec.side = "hold"
       /\ output.rec.confidence = R(0)
       /\ output.price = input_price

\* C23 witness: a call with an empty series and a price other than zero that
\* returned hold with that price.
BasicOnEmptySeriesKeepsPriceWitness ==
    /\ output.kind = "basic"
    /\ Len(input_data.prices) = 0
    /\ input_price > 0
    /\ output.rec = Hold
    /\ output.price = input_price


\* C24: an executed buy at price p leaves the asset's level at entry p, stop
\* loss p x (1 - stop_loss_pct), highest p and trailing p x (1 -
\* trailing_stop_pct), whether or not there was a level before; in a step
\* that is not an executed buy of the asset the entry and stop-loss prices
\* of its level do not change; and when a cycle ends every level has
\* trailing = highest x (1 - trailing_stop_pct) and highest >= entry.
BuySetsLevelAnew ==
    [][\A c \in Codes :
          /\ \A t \in Threads :
                (pc[t] = "place" /\ Current(t) = c /\ order[t].side = "buy"
                   /\ trade'[t].kind = "Trade") =>
                   LET p == order[t].price
                   IN  /\ stop_levels'[c].present
                       /\ stop_levels'[c].entry_price = p
                       /\ stop_levels'[c].stop_loss = RMul(R(p), OneMinus(StopLossPct))
                       /\ stop_levels'[c].highest_price = p
                       /\ stop_levels'[c].trailing_stop =
                             RMul(R(p), OneMinus(TrailingStopPct))
          /\ (stop_levels[c].present /\ stop_levels'[c].present /\ ~BuyExecuted(c)) =>
                /\ stop_levels'[c].entry_price = stop_levels[c].entry_price
                /\ stop_levels'[c].stop_loss = stop_levels[c].stop_loss
          /\ ((\E t \in Threads : pc[t] # "idle" /\ pc'[t] = "idle")
                /\ stop_levels'[c].present) =>
                /\ stop_levels'[c].trailing_stop =
                      RMul(R(stop_levels'[c].highest_price), OneMinus(TrailingStopPct))
                /\ stop_levels'[c].highest_price >= stop_levels'[c].entry_price]_vars

\* C24 witness: a buy at 20 of an asset that was held already has just been
\* executed, and the level is the one of that buy.
BuySetsLevelAnewWitness ==
    \E c \in Codes :
       /\ trade[1].kind = "Trade"
       /\ trade[1].side = "buy"
       /\ trade[1].price = 20
       /\ positions[c].present
       /\ RLt(trade[1].quantity, positions[c].amount)
       /\ stop_levels[c].present
       /\ stop_levels[c].entry_price = 20
       /\ stop_levels[c].highest_price = 20
       /\ \A d \in Codes \ {c} : ~positions[d].present


PositionsNeverNegative ==
    /\ \A c \in Codes : RLe(R(0), positions[c].amount)
    /\ \A t \in Threads :
          pc[t] = "place" /\ order[t].side = "sell" =>
             /\ positions[Current(t)].present
             /\ RLe(order[t].quantity, positions[Current(t)].amount)
             /\ \A executed \in Trades(order[t], test_mode) :
                   RLe(executed.quantity, positions[Current(t)].amount)

\* C26 witness: a sell has been applied for half of the amount held, and the
\* other half is still held.
PositionsNeverNegativeWitness ==
    /\ trade[1].kind = "Trade"
    /\ trade[1].side = "sell"
    /\ RLt(R(0), trade[1].quantity)
    /\ \E c \in Codes : positions[c].present /\ positions[c].amount = trade[1].quantity


\* C27: with every order executed at the requested price and quantity, cash
\* is never below zero.
CashNeverNegative == RLe(R(0), cash)


\* C28: the assets are listed once each; within a cycle the loop never goes
\* back to an earlier asset; an order is submitted only out of the stop check
\* and sizing of the asset at hand; and once place_order has returned the
\* loop leaves that asset, so that a cycle submits at most one order per
\* asset and does not check or sell what it has just bought.
OneOrderPerAsset ==
    /\ \A i, j \in 1..Len(assets) : assets[i] = assets[j] => i = j
    /\ [][\A t \in Threads :
             /\ (pc[t] # "idle" /\ pc'[t] # "idle") => asset_i'[t] >= asset_i[t]
             /\ (pc[t] # "place" /\ pc'[t] = "place") =>
                   /\ pc[t] \in {"stops", "size"}
                   /\ asset_i'[t] = asset_i[t]
             /\ (pc[t] # "stops" /\ pc'[t] = "stops") => pc[t] = "advise"
             /\ (pc[t] = "place" /\ pc'[t] # "place") =>
                   \/ pc'[t] = "performance" /\ asset_i[t] = Len(assets)
                   \/ pc'[t] = "advise" /\ asset_i'[t] = asset_i[t] + 1]_vars

\* C28 witness: in the first cycle, after an executed buy of the first asset,
\* an order for the second asset is about to be placed.
OneOrderPerAssetWitness ==
    /\ clock = 1
    /\ buys = 1
    /\ pc[1] = "place"
    /\ asset_i[1] = 2
    /\ Held(assets[1])

\* the market moves no more, and asset c is held at a price at or below the
\* stop loss of its stop level
BelowStopLossForGood(c) ==
    /\ ticks = MaxTicks
    /\ Held(c)
    /\ stop_levels[c].present
    /\ market[c] # None
    /\ RLe(R(market[c]), stop_levels[c].stop_loss)

\* nothing of asset c is held and its stop level is deleted
SoldInFull(c) == ~Held(c) /\ ~stop_levels[c].present

\* C29: once the market has stopped moving with the price of a held asset
\* at or below its stop loss, the position is eventually sold in full and
\* its stop level deleted.
ForcedExitCompletes ==
    /\ BelowStopLossForGood(assets[1]) ~> SoldInFull(assets[1])
    /\ BelowStopLossForGood(assets[2]) ~> SoldInFull(assets[2])

\* the call of simulate_once that has just returned executed no trade, and
\* the market has not moved since the program started
NothingHappened ==
    /\ ticks = 0
    /\ cash = began[1]
    /\ positions = began[2]

\* C30: the variation returned by the simulate operation is the variation of
\* the performance snapshot its cycle stored in last_performance, and it is 0
\* when no price has changed and no trade was executed.
SimulateReturnsSnapshotVariation ==
    response.phase = "returned" =>
        /\ last_performance.present
        /\ response.variation = last_performance.variation
        /\ NothingHappened => response.variation = R(0)

=============================================================================
